---- MODULE Spec2Model ----
(***************************************************************************)
(* Model of xpmir/interfaces/anserini.py: the StreamGenerator thread that  *)
(* feeds a named pipe, and IndexCollection.execute, which spawns the       *)
(* Anserini indexer, parses its standard output and resolves the exit      *)
(* status of the task.                                                     *)
(***************************************************************************)
EXTENDS Integers, Sequences, FiniteSets, TLC

(* ------------------------------ bounds --------------------------------- *)
\* lines of child standard output read by one run
MaxLines == 3
\* source documents the producer reads from the csv collection
MaxDocs == 2
\* records the pipe buffer holds before a write blocks
PipeCap == 1

(* ------------------- child standard output, as data -------------------- *)
\* A line is a sequence of fragments.  filesXXX is the text
\*   "index.IndexCollection (IndexCollection.java:NN) - XXX files found",
\* docs is "index.IndexCollection$LocalIndexerThread (IndexCollection.java:NN)
\*   ... docs added.", complete is "IndexCollection.java ... Indexing Complete
\*   ... documents indexed", other is any other valid text and bytes is a
\* fragment that is not valid UTF-8.
FilesTok == {"files0", "files1", "files1c0", "filesComma"}

\* the characters captured by ([\d,]+) in a files-found fragment
Group(tok) ==
    CASE tok = "files0"     -> <<"0">>
      [] tok = "files1"     -> <<"1">>
      [] tok = "files1c0"   -> <<"1", ",", "0">>
      [] tok = "filesComma" -> <<",">>

LINES ==
    { <<"other">>, <<"bytes">>, <<"docs">>, <<"complete">>,
      <<"files0">>, <<"files1">>, <<"files1c0">>, <<"filesComma">>,
      <<"files1", "complete">>, <<"docs", "complete">>,
      <<"files1", "docs">>, <<"files1c0", "files1">>, <<"bytes", "docs">> }

Has(line, toks) == \E i \in 1..Len(line) : line[i] \in toks

\* RE_FILES.match(data): leading .* and no end anchor, so the pattern matches
\* when the fragment occurs anywhere in the line
RE_FILES_match(line) == Has(line, FilesTok)

\* variant: a non-greedy prefix captures the FIRST files-found fragment
RE_FILES_group_first(line) ==
    LET first == CHOOSE i \in 1..Len(line) :
                   /\ line[i] \in FilesTok
                   /\ \A j \in 1..(i-1) : line[j] \notin FilesTok
    IN  Group(line[first])

\* m.group(1): the leading .* is greedy, so the LAST files-found fragment of
\* the line is the one captured
RE_FILES_group(line) ==
    LET last == CHOOSE i \in 1..Len(line) :
                  /\ line[i] \in FilesTok
                  /\ \A j \in (i+1)..Len(line) : line[j] \notin FilesTok
    IN  Group(line[last])

RE_FILE_match(line) == Has(line, {"docs"})

RE_COMPLETE_match(line) == Has(line, {"complete"})

\* data.decode("utf-8") succeeds
Decodable(line) == ~Has(line, {"bytes"})

\* str.replace(",", "")
RECURSIVE RemoveCommas(_)
RemoveCommas(s) ==
    IF s = <<>> THEN <<>>
    ELSE IF Head(s) = "," THEN RemoveCommas(Tail(s))
         ELSE <<Head(s)>> \o RemoveCommas(Tail(s))

DigitVal(c) == CASE c = "0" -> 0 [] c = "1" -> 1 [] c = "2" -> 2

\* int(text) for a non-empty string of digits
RECURSIVE IntOf(_)
IntOf(s) ==
    IF s = <<>> THEN 0
    ELSE 10 * IntOf(SubSeq(s, 1, Len(s) - 1)) + DigitVal(s[Len(s)])

\* variant: the child's code is trusted without the completion marker
ResolveStatus_trusting(rc, cmpl) == rc

\* sys.exit argument chosen at the end of run
ResolveStatus(rc, cmpl) == IF rc = 0 /\ ~cmpl THEN 1 ELSE rc

\* What the body of the while loop does with one line, given the locals.
\* exc is the exception the body raises ("none" if it completes).
NoOut == [prog |-> FALSE, num |-> 0, den |-> 0, echo |-> FALSE, printed |-> FALSE]

\* variant: the completion pattern is a third elif branch of the chain
ProcessLine_chained(line, nf, ix, cmpl) ==
    LET base == [nfiles |-> nf, indexedfiles |-> ix, complete |-> cmpl,
                 exc |-> "none", out |-> NoOut]
    IN  IF RE_FILES_match(line)
        THEN LET txt == RemoveCommas(RE_FILES_group(line))
             IN  IF txt = <<>>
                 THEN [base EXCEPT !.exc = "ValueError"]
                 ELSE [base EXCEPT !.nfiles = IntOf(txt),
                                   !.out = [NoOut EXCEPT !.printed = TRUE]]
        ELSE IF RE_FILE_match(line)
        THEN IF nf = 0
             THEN [base EXCEPT !.indexedfiles = ix + 1,
                               !.exc = "ZeroDivisionError"]
             ELSE [base EXCEPT !.indexedfiles = ix + 1,
                               !.out = [NoOut EXCEPT !.prog = TRUE,
                                                     !.num = ix + 1,
                                                     !.den = nf]]
        ELSE IF RE_COMPLETE_match(line)
        THEN [base EXCEPT !.complete = TRUE]
        ELSE IF Decodable(line)
             THEN [base EXCEPT !.out = [NoOut EXCEPT !.echo = TRUE]]
             ELSE [base EXCEPT !.exc = "UnicodeDecodeError"]

ProcessLine(line, nf, ix, cmpl) ==
    LET c2 == cmpl \/ RE_COMPLETE_match(line)
        base == [nfiles |-> nf, indexedfiles |-> ix, complete |-> c2,
                 exc |-> "none", out |-> NoOut]
    IN  IF RE_FILES_match(line)
        THEN LET txt == RemoveCommas(RE_FILES_group(line))
             IN  IF txt = <<>>
                 THEN [base EXCEPT !.exc = "ValueError"]
                 ELSE [base EXCEPT !.nfiles = IntOf(txt),
                                   !.out = [NoOut EXCEPT !.printed = TRUE]]
        ELSE IF RE_FILE_match(line)
        THEN IF nf = 0
             THEN [base EXCEPT !.indexedfiles = ix + 1,
                               !.exc = "ZeroDivisionError"]
             ELSE [base EXCEPT !.indexedfiles = ix + 1,
                               !.out = [NoOut EXCEPT !.prog = TRUE,
                                                     !.num = ix + 1,
                                                     !.den = nf]]
        ELSE IF Decodable(line)
             THEN [base EXCEPT !.out = [NoOut EXCEPT !.echo = TRUE]]
             ELSE [base EXCEPT !.exc = "UnicodeDecodeError"]

(* --------------------- the csv source, as data ------------------------ *)
\* lines of documents.path; "|" stands for documents.separator
SOURCE_LINES == { <<"a", "|", "b">>, <<"a", "|", "b", "|", "c">>, <<"a">> }

\* str.split(sep, 1): at most one split, at the first separator
SplitOnce(s) ==
    IF \E i \in 1..Len(s) : s[i] = "|"
    THEN LET k == CHOOSE i \in 1..Len(s) :
                    s[i] = "|" /\ \A j \in 1..(i-1) : s[j] # "|"
         IN  << SubSeq(s, 1, k - 1), SubSeq(s, k + 1, Len(s)) >>
    ELSE << s >>

\* "docid, text = ..." unpacks exactly two values
UnpackOk(line) == Len(SplitOnce(line)) = 2

(* ------------------------------ state ---------------------------------- *)
RETURNCODES == {0, 1, 137}
\* concrete types self.documents can have: the two registered ones, the
\* declared base type and a subclass of TipsterCollection
DOCTYPES == {"TipsterCollection", "ir_csv.AdhocDocuments", "AdhocDocuments",
             "TipsterCollection.subclass"}
\* concrete types of self.topics and self.model
TOPICTYPES == {"TrecAdhocTopics", "ir_csv.AdhocTopics", "AdhocTopics"}
MODELTYPES == {"BM25", "Model", "BM25.subclass"}

\* variant: csv_collection annotated with the AdhocDocuments imported from
\* datamaestro_text.data.ir.trec instead of ir_csv.AdhocDocuments
chandler_basetype ==
    [t \in {"TipsterCollection", "AdhocDocuments"} |->
        IF t = "TipsterCollection" THEN "trec_collection" ELSE "csv_collection"]

\* the registries built by the decorators: annotation of the parameter |->
\* decorated function
chandler ==
    [t \in {"TipsterCollection", "ir_csv.AdhocDocuments"} |->
        IF t = "TipsterCollection" THEN "trec_collection" ELSE "csv_collection"]

topicshandler ==
    [t \in {"TrecAdhocTopics", "ir_csv.AdhocTopics"} |->
        IF t = "TrecAdhocTopics" THEN "trectopics" ELSE "tsvtopics"]

modelhandler == [t \in {"BM25"} |-> "handle"]

\* Handler.__getitem__: the handler registered for the exact concrete type
\* of the value, or the no-handler error
Handler_getitem(registry, t) ==
    IF t \in DOMAIN registry THEN registry[t] ELSE "UnsupportedVariant"

VARIABLES
    pc,            \* position of IndexCollection.execute / run
    gen,           \* what chandler returned: "unset", "null", "stream"
    dirExists,     \* the mkdtemp directory is on disk
    fifoExists,    \* fifo.json is on disk
    unlinks,       \* calls of filepath.unlink() that removed the fifo
    rmdirs,        \* calls of filepath.parent.rmdir() that removed the directory
    prod,          \* StreamGenerator thread: new, opening, writing, done, failed
    prodExc,       \* exception that ended the thread ("none" if none)
    docs,          \* records the producer has written
    pipe,          \* records in the pipe buffer
    rd,            \* read end of the fifo held by the child: never, open, closed
    child,         \* child process: none, running, exited
    returncode,    \* proc.returncode once exited
    observed,      \* proc.wait() has returned
    nfiles, indexedfiles, complete,    \* locals of run
    nread,         \* lines read so far
    markerSeen,    \* some line read so far matched RE_COMPLETE
    last,          \* the line read last and what the loop body emitted for it
    writers,       \* execution units that have called progress()
    exc,           \* exception in flight in run ("none" if none)
    exitcode,      \* argument of sys.exit when exc = "SystemExit"
    aborted,       \* the run was cancelled
    task,          \* the task that executes: IndexCollection or SearchCollection
    calls          \* the dispatches made so far: dispatcher, type, handler run

vars == << pc, gen, dirExists, fifoExists, unlinks, rmdirs, prod, prodExc, docs,
           pipe, rd, child, returncode, observed, nfiles, indexedfiles,
           complete, nread, markerSeen, last, writers, exc, exitcode, aborted,
           task, calls >>

fsVars   == << dirExists, fifoExists, unlinks, rmdirs >>
prodVars == << prod, prodExc, docs >>
childVars == << child, returncode >>
loopVars == << nfiles, indexedfiles, complete, nread, markerSeen, last >>

NoLine == [line |-> <<>>, nfBefore |-> -1, ixBefore |-> 0, cBefore |-> FALSE,
           out |-> NoOut, raised |-> "none"]

Init ==
    /\ task \in {"IndexCollection", "SearchCollection"}
    /\ pc = IF task = "IndexCollection" THEN "dispatch" ELSE "topics"
    /\ calls = <<>>
    /\ gen = "unset"
    /\ dirExists = FALSE /\ fifoExists = FALSE
    /\ unlinks = 0 /\ rmdirs = 0
    /\ prod = "new" /\ prodExc = "none" /\ docs = 0
    /\ pipe = 0 /\ rd = "never"
    /\ child = "none" /\ returncode = 0 /\ observed = FALSE
    /\ nfiles = -1 /\ indexedfiles = 0 /\ complete = FALSE
    /\ nread = 0 /\ markerSeen = FALSE /\ last = NoLine
    /\ writers = {}
    /\ exc = "none" /\ exitcode = 0 /\ aborted = FALSE

(* ---------------------- IndexCollection.execute ------------------------ *)
\* chandler[self.documents]: trec_collection returns a null context,
\* csv_collection constructs a StreamGenerator (mkdtemp + mkfifo)
Dispatch(t) ==
    /\ pc = "dispatch"
    /\ LET h == Handler_getitem(chandler, t)
       IN  /\ calls' = Append(calls, [dispatcher |-> "chandler", type |-> t,
                                      handler |-> h])
           /\ IF h = "csv_collection"
              THEN /\ gen' = "stream"
                   /\ dirExists' = TRUE /\ fifoExists' = TRUE
                   /\ pc' = "enter"
                   /\ UNCHANGED exc
              ELSE IF h = "trec_collection"
              THEN /\ gen' = "null"
                   /\ pc' = "enter"
                   /\ UNCHANGED << dirExists, fifoExists, exc >>
              ELSE /\ exc' = h
                   /\ pc' = "done"
                   /\ UNCHANGED << gen, dirExists, fifoExists >>
    /\ UNCHANGED << unlinks, rmdirs, prodVars, pipe, rd, childVars, observed,
                    loopVars, writers, exitcode, aborted, task >>

\* "with generator as yo": StreamGenerator.__enter__ starts the thread, whose
\* run() first opens the fifo for writing
Enter ==
    /\ pc = "enter"
    /\ prod' = IF gen = "stream" THEN "opening" ELSE prod
    /\ pc' = "spawn"
    /\ UNCHANGED << gen, task, calls, fsVars, prodExc, docs, pipe, rd, childVars, observed,
                    loopVars, writers, exc, exitcode, aborted >>

\* asyncio.create_subprocess_exec succeeds, locals are initialised
SpawnOk ==
    /\ pc = "spawn"
    /\ child' = "running"
    /\ nfiles' = -1 /\ indexedfiles' = 0 /\ complete' = FALSE
    /\ pc' = "read"
    /\ UNCHANGED << gen, task, calls, fsVars, prodVars, pipe, rd, returncode, observed,
                    nread, markerSeen, last, writers, exc, exitcode, aborted >>

\* asyncio.create_subprocess_exec raises (executable missing)
SpawnFail ==
    /\ pc = "spawn"
    /\ exc' = "OSError"
    /\ pc' = "exit"
    /\ UNCHANGED << gen, task, calls, fsVars, prodVars, pipe, rd, childVars, observed,
                    loopVars, writers, exitcode, aborted >>

\* one iteration of the while loop on a non-empty line
ReadLine(l) ==
    /\ pc = "read"
    /\ child \in {"running", "exited"}
    /\ nread < MaxLines
    /\ LET r == ProcessLine(l, nfiles, indexedfiles, complete)
       IN  /\ nfiles' = r.nfiles
           /\ indexedfiles' = r.indexedfiles
           /\ complete' = r.complete
           /\ last' = [line |-> l, nfBefore |-> nfiles, ixBefore |-> indexedfiles,
                       cBefore |-> complete, out |-> r.out, raised |-> r.exc]
           /\ writers' = IF r.out.prog THEN writers \cup {"drain"} ELSE writers
           /\ exc' = r.exc
           /\ pc' = IF r.exc = "none" THEN "read" ELSE "exit"
    /\ nread' = nread + 1
    /\ markerSeen' = (markerSeen \/ Has(l, {"complete"}))
    /\ UNCHANGED << gen, task, calls, fsVars, prodVars, pipe, rd, childVars, observed,
                    exitcode, aborted >>

\* readline returns b"" once the child has closed its standard output
ReadEOF ==
    /\ pc = "read"
    /\ child = "exited"
    /\ pc' = "wait"
    /\ UNCHANGED << gen, task, calls, fsVars, prodVars, pipe, rd, childVars, observed,
                    loopVars, writers, exc, exitcode, aborted >>

\* await proc.wait(), then sys.exit(...)
Wait ==
    /\ pc = "wait"
    /\ child = "exited"
    /\ observed' = TRUE
    /\ exc' = "SystemExit"
    /\ exitcode' = ResolveStatus(returncode, complete)
    /\ pc' = "exit"
    /\ UNCHANGED << gen, task, calls, fsVars, prodVars, pipe, rd, childVars, loopVars,
                    writers, aborted >>

\* the task running run() is cancelled while suspended in an await
Abort ==
    /\ pc \in {"read", "wait"}
    /\ child = "running"
    /\ aborted' = TRUE
    /\ exc' = "CancelledError"
    /\ pc' = "exit"
    /\ UNCHANGED << gen, task, calls, fsVars, prodVars, pipe, rd, childVars, observed,
                    loopVars, writers, exitcode >>

\* contextlib.nullcontext.__exit__
NullExit ==
    /\ pc = "exit"
    /\ gen = "null"
    /\ pc' = "done"
    /\ UNCHANGED << gen, task, calls, fsVars, prodVars, pipe, rd, childVars, observed,
                    loopVars, writers, exc, exitcode, aborted >>

\* variant: the cleanup is skipped when the thread ended with an exception
StreamExit_skipping ==
    /\ pc = "exit"
    /\ gen = "stream"
    /\ prod \in {"done", "failed"}
    /\ IF prod = "failed"
       THEN UNCHANGED fsVars
       ELSE /\ fifoExists' = FALSE /\ unlinks' = unlinks + 1
            /\ dirExists' = FALSE /\ rmdirs' = rmdirs + 1
    /\ pc' = "done"
    /\ UNCHANGED << gen, task, calls, prodVars, pipe, rd, childVars, observed, loopVars,
                    writers, exc, exitcode, aborted >>

\* StreamGenerator.__exit__: join() returns once the thread has ended, then
\* the fifo and its directory are removed; the exception in flight propagates
StreamExit ==
    /\ pc = "exit"
    /\ gen = "stream"
    /\ prod \in {"done", "failed"}
    /\ fifoExists' = FALSE /\ unlinks' = unlinks + 1
    /\ dirExists' = FALSE /\ rmdirs' = rmdirs + 1
    /\ pc' = "done"
    /\ UNCHANGED << gen, task, calls, prodVars, pipe, rd, childVars, observed, loopVars,
                    writers, exc, exitcode, aborted >>

(* ----------------------- StreamGenerator.run --------------------------- *)
\* filepath.open("wt") on a fifo returns when a reader has opened it; the
\* child's open for reading returns at the same moment
ProdOpen ==
    /\ prod = "opening"
    /\ child = "running"
    /\ rd = "never"
    /\ prod' = "writing"
    /\ rd' = "open"
    /\ UNCHANGED << pc, gen, task, calls, fsVars, prodExc, docs, pipe, childVars, observed,
                    loopVars, writers, exc, exitcode, aborted >>

\* variant: the producer leaves the progress sink alone
ProdWrite_silent(l) ==
    /\ prod = "writing"
    /\ docs < MaxDocs
    /\ IF ~UnpackOk(l)
       THEN /\ prod' = "failed" /\ prodExc' = "ValueError"
            /\ UNCHANGED << docs, pipe >>
       ELSE IF rd = "closed"
       THEN /\ prod' = "failed" /\ prodExc' = "BrokenPipeError"
            /\ UNCHANGED << docs, pipe >>
       ELSE /\ pipe < PipeCap
            /\ pipe' = pipe + 1
            /\ docs' = docs + 1
            /\ UNCHANGED << prod, prodExc >>
    /\ UNCHANGED << pc, gen, task, calls, fsVars, rd, childVars, observed, loopVars, exc,
                    exitcode, aborted, writers >>

\* one iteration of the for loop of _generator on source line l
ProdWrite(l) ==
    /\ prod = "writing"
    /\ docs < MaxDocs
    /\ writers' = writers \cup {"producer"}
    /\ IF ~UnpackOk(l)
       THEN /\ prod' = "failed" /\ prodExc' = "ValueError"
            /\ UNCHANGED << docs, pipe >>
       ELSE IF rd = "closed"
       THEN /\ prod' = "failed" /\ prodExc' = "BrokenPipeError"
            /\ UNCHANGED << docs, pipe >>
       ELSE /\ pipe < PipeCap
            /\ pipe' = pipe + 1
            /\ docs' = docs + 1
            /\ UNCHANGED << prod, prodExc >>
    /\ UNCHANGED << pc, gen, task, calls, fsVars, rd, childVars, observed, loopVars, exc,
                    exitcode, aborted >>

\* the source is exhausted: _generator returns and the fifo is closed
ProdFinish ==
    /\ prod = "writing"
    /\ prod' = "done"
    /\ UNCHANGED << pc, gen, task, calls, fsVars, prodExc, docs, pipe, rd, childVars,
                    observed, loopVars, writers, exc, exitcode, aborted >>

(* --------------------------- child process ----------------------------- *)
ChildRead ==
    /\ child = "running"
    /\ rd = "open"
    /\ pipe > 0
    /\ pipe' = pipe - 1
    /\ UNCHANGED << pc, gen, task, calls, fsVars, prodVars, rd, childVars, observed,
                    loopVars, writers, exc, exitcode, aborted >>

ChildCloseFifo ==
    /\ child = "running"
    /\ rd = "open"
    /\ rd' = "closed"
    /\ UNCHANGED << pc, gen, task, calls, fsVars, prodVars, pipe, childVars, observed,
                    loopVars, writers, exc, exitcode, aborted >>

ChildExit(c) ==
    /\ child = "running"
    /\ child' = "exited"
    /\ returncode' = c
    /\ rd' = IF rd = "open" THEN "closed" ELSE rd
    /\ UNCHANGED << pc, gen, task, calls, fsVars, prodVars, pipe, observed, loopVars,
                    writers, exc, exitcode, aborted >>

(* ---------------------- SearchCollection.execute ----------------------- *)
searchRest == << gen, fsVars, prodVars, pipe, rd, observed, loopVars, writers,
                 aborted, task >>

\* topicshandler[self.topics]
SearchTopics(t) ==
    /\ pc = "topics"
    /\ LET h == Handler_getitem(topicshandler, t)
       IN  /\ calls' = Append(calls, [dispatcher |-> "topicshandler",
                                      type |-> t, handler |-> h])
           /\ IF h = "UnsupportedVariant"
              THEN exc' = h /\ pc' = "done"
              ELSE pc' = "model" /\ UNCHANGED exc
    /\ UNCHANGED << searchRest, childVars, exitcode >>

\* modelhandler[self.model]
SearchModel(t) ==
    /\ pc = "model"
    /\ LET h == Handler_getitem(modelhandler, t)
       IN  /\ calls' = Append(calls, [dispatcher |-> "modelhandler",
                                      type |-> t, handler |-> h])
           /\ IF h = "UnsupportedVariant"
              THEN exc' = h /\ pc' = "done"
              ELSE pc' = "search" /\ UNCHANGED exc
    /\ UNCHANGED << searchRest, childVars, exitcode >>

\* p = subprocess.run(command); sys.exit(p.returncode)
SearchRun(c) ==
    /\ pc = "search"
    /\ child' = "exited"
    /\ returncode' = c
    /\ exc' = "SystemExit"
    /\ exitcode' = c
    /\ pc' = "done"
    /\ UNCHANGED << searchRest, calls >>

\* subprocess.run raises (executable missing)
SearchSpawnFail ==
    /\ pc = "search"
    /\ exc' = "OSError"
    /\ pc' = "done"
    /\ UNCHANGED << searchRest, calls, childVars, exitcode >>

Next ==
    \/ \E t \in DOCTYPES : Dispatch(t)
    \/ Enter
    \/ SpawnOk
    \/ SpawnFail
    \/ \E l \in LINES : ReadLine(l)
    \/ ReadEOF
    \/ Wait
    \/ Abort
    \/ NullExit
    \/ StreamExit
    \/ ProdOpen
    \/ \E l \in SOURCE_LINES : ProdWrite(l)
    \/ ProdFinish
    \/ ChildRead
    \/ ChildCloseFifo
    \/ \E c \in RETURNCODES : ChildExit(c)
    \/ \E t \in TOPICTYPES : SearchTopics(t)
    \/ \E t \in MODELTYPES : SearchModel(t)
    \/ \E c \in RETURNCODES : SearchRun(c)
    \/ SearchSpawnFail

Spec == Init /\ [][Next]_vars

\* every step of the program and of the child is eventually scheduled; the
\* cancellation is an outside event and is not
FairSpec ==
    /\ Spec
    /\ WF_vars(\E t \in DOCTYPES : Dispatch(t))
    /\ WF_vars(Enter)
    /\ WF_vars(SpawnOk \/ SpawnFail)
    /\ WF_vars((\E l \in LINES : ReadLine(l)) \/ ReadEOF)
    /\ WF_vars(Wait)
    /\ WF_vars(NullExit)
    /\ WF_vars(StreamExit)
    /\ WF_vars(ProdOpen)
    /\ WF_vars((\E l \in SOURCE_LINES : ProdWrite(l)) \/ ProdFinish)
    /\ WF_vars(ChildRead)
    /\ WF_vars(ChildCloseFifo)
    /\ WF_vars(\E c \in RETURNCODES : ChildExit(c))
    /\ WF_vars(\E t \in TOPICTYPES : SearchTopics(t))
    /\ WF_vars(\E t \in MODELTYPES : SearchModel(t))
    /\ WF_vars((\E c \in RETURNCODES : SearchRun(c)) \/ SearchSpawnFail)

TypeOK ==
    /\ pc \in {"dispatch", "enter", "spawn", "read", "wait", "exit", "done",
              "topics", "model", "search"}
    /\ Len(calls) <= 2
    /\ gen \in {"unset", "null", "stream"}
    /\ prod \in {"new", "opening", "writing", "done", "failed"}
    /\ child \in {"none", "running", "exited"}
    /\ rd \in {"never", "open", "closed"}
    /\ pipe \in 0..PipeCap
    /\ docs \in 0..MaxDocs
    /\ nread \in 0..MaxLines

(* ------------------------------ claims --------------------------------- *)

C2_ScopeEnclosesChild ==
    gen = "stream" =>
        /\ (child # "none" => prod # "new" /\ pc # "enter")
        /\ (unlinks > 0 \/ rmdirs > 0 \/ ~fifoExists \/ ~dirExists) =>
               (prod \in {"done", "failed"} /\ child = "exited" /\ observed)

\* C3: the fifo and its directory exist from the construction of the
\* StreamGenerator until its scope exits; after that both are absent and each
\* was removed exactly once, whether the producer returned or raised.
C3_ChannelLifetime ==
    gen = "stream" =>
        IF pc = "done"
        THEN ~fifoExists /\ ~dirExists /\ unlinks = 1 /\ rmdirs = 1
        ELSE fifoExists /\ dirExists /\ unlinks = 0 /\ rmdirs = 0

C3_Witness ==
    /\ gen = "stream" /\ pc = "done"
    /\ prod = "failed" /\ prodExc = "ValueError"
    /\ ~fifoExists /\ ~dirExists

\* C4: a run whose producer raised on a source line that cannot be split
\* never ends with exit status 0.
C4_ProducerErrorSurfaced ==
    (pc = "done" /\ prodExc = "ValueError") =>
        ~(exc = "SystemExit" /\ exitcode = 0)

\* C5: after a failed spawn, run eventually terminates with the spawn error.
C5_SpawnFailureSurfaces ==
    (exc = "OSError") ~> (pc = "done" /\ exc = "OSError")

\* C6: after a cancellation with a StreamGenerator, eventually the child has
\* terminated, the producer thread has ended and the temporary directory is
\* gone.
C6_AbortCleansUp ==
    (aborted /\ gen = "stream") ~>
        (child = "exited" /\ prod \in {"done", "failed"} /\ ~dirExists)

\* C7: indexedfiles never decreases and, whenever nfiles is known, does not
\* exceed nfiles.
C7_CompletedWithinTotal ==
    [][ /\ indexedfiles' >= indexedfiles
        /\ (nfiles' # -1 => indexedfiles' <= nfiles') ]_vars

\* C8: a docs-added line read while nfiles is unknown increments the counter,
\* raises nothing and reports no progress; progress is reported only with a
\* known total.
C8_NoProgressBeforeTotal ==
    last.line # <<>> =>
        /\ (last.out.prog => last.nfBefore # -1)
        /\ (last.nfBefore = -1 /\ RE_FILE_match(last.line)
                /\ ~RE_FILES_match(last.line)) =>
               (indexedfiles = last.ixBefore + 1 /\ last.raised = "none")

\* first match in the order total-count, per-unit, completion
Class(line) ==
    IF Has(line, FilesTok) THEN "total"
    ELSE IF Has(line, {"docs"}) THEN "unit"
    ELSE IF Has(line, {"complete"}) THEN "complete"
    ELSE "none"

\* C9 (as stated): a line has only the effect of the first pattern it
\* matches and is echoed if and only if it matches none of the three.
C9_FirstMatchOnly ==
    last.line # <<>> =>
        /\ (last.out.echo <=> Class(last.line) = "none")
        /\ Class(last.line) = "total" =>
               (indexedfiles = last.ixBefore /\ complete = last.cBefore)
        /\ Class(last.line) = "unit" =>
               (nfiles = last.nfBefore /\ complete = last.cBefore)
        /\ Class(last.line) = "complete" =>
               (nfiles = last.nfBefore /\ indexedfiles = last.ixBefore /\ complete)

\* C9 (amended): the completion pattern is tested on every line, whatever
\* else the line matches; the other two patterns are tried in the order
\* total-count, per-unit and only the first that matches has its effect; a
\* line is echoed if and only if it matches neither of these two and decodes
\* as UTF-8, and raises a decoding error if it matches neither and does not.
C9_CompletionIndependent ==
    last.line # <<>> =>
        /\ complete = (last.cBefore \/ Has(last.line, {"complete"}))
        /\ Has(last.line, FilesTok) =>
               (indexedfiles = last.ixBefore /\ ~last.out.prog /\ ~last.out.echo)
        /\ (~Has(last.line, FilesTok) /\ Has(last.line, {"docs"})) =>
               /\ nfiles = last.nfBefore /\ indexedfiles = last.ixBefore + 1
               /\ ~last.out.echo /\ ~last.out.printed
        /\ (~Has(last.line, FilesTok) /\ ~Has(last.line, {"docs"})) =>
               /\ nfiles = last.nfBefore /\ indexedfiles = last.ixBefore
               /\ ~last.out.prog /\ ~last.out.printed
               /\ (last.out.echo <=> ~Has(last.line, {"bytes"}))
               /\ (last.raised = "UnicodeDecodeError" <=> Has(last.line, {"bytes"}))

C9_Witness ==
    /\ last.line = <<"files1", "complete">>
    /\ ~last.cBefore /\ complete /\ nfiles = 1 /\ ~last.out.echo

\* the integer each files-found line of LINES carries (the last one, commas
\* dropped); -2 stands for a line that carries no digit
Carried(line) ==
    CASE line = <<"files0">>             -> 0
      [] line = <<"files1">>             -> 1
      [] line = <<"files1c0">>           -> 10
      [] line = <<"filesComma">>         -> -2
      [] line = <<"files1", "complete">> -> 1
      [] line = <<"files1", "docs">>     -> 1
      [] line = <<"files1c0", "files1">> -> 1

\* C10 (as stated): every files-found line sets nfiles to the integer it
\* carries and reports the progress 0/nfiles.
C10_TotalReportsProgress ==
    (last.line # <<>> /\ Has(last.line, FilesTok)) =>
        /\ nfiles = Carried(last.line)
        /\ last.out.prog /\ last.out.num = 0 /\ last.out.den = nfiles

\* C10 (amended): a files-found line that carries at least one digit sets
\* nfiles to the integer it carries, prints the count and reports no
\* progress; one that carries no digit raises ValueError and leaves nfiles
\* unchanged; progress is reported only for a docs-added line that is not a
\* files-found line, as indexedfiles/nfiles.
C10_TotalSetWithoutProgress ==
    last.line # <<>> =>
        /\ (Has(last.line, FilesTok) /\ Carried(last.line) # -2) =>
               /\ nfiles = Carried(last.line)
               /\ last.out.printed /\ ~last.out.prog /\ last.raised = "none"
        /\ (Has(last.line, FilesTok) /\ Carried(last.line) = -2) =>
               /\ nfiles = last.nfBefore
               /\ last.raised = "ValueError" /\ ~last.out.prog
        /\ last.out.prog =>
               /\ ~Has(last.line, FilesTok) /\ Has(last.line, {"docs"})
               /\ last.out.num = indexedfiles /\ last.out.den = nfiles

C10_Witness ==
    /\ last.line = <<"files1c0", "files1">>
    /\ last.nfBefore = 10 /\ nfiles = 1
    /\ last.out.printed /\ ~last.out.prog

\* C11 (as stated): every progress update is issued by the task that drains
\* the child's standard output, never by the producer's thread.
C11_SingleWriter == writers \subseteq {"drain"}

\* C11 (amended): the locals nfiles, indexedfiles and complete are written
\* by the loop of run only; the progress sink has two writers, the loop of
\* run (for docs-added lines) and the producer thread, which reports
\* progress for every source line it reads, also while run is reading.
C11_TwoSinkWriters ==
    [][ /\ (<< nfiles, indexedfiles, complete >>' # << nfiles, indexedfiles, complete >>)
            => (pc = "read" /\ nread' = nread + 1)
        /\ (writers' # writers) =>
               \/ pc = "read" /\ nread' = nread + 1 /\ last'.out.prog
                    /\ writers' = writers \cup {"drain"}
               \/ prod = "writing" /\ pc' = pc /\ nread' = nread
                    /\ writers' = writers \cup {"producer"}
        /\ (prod = "writing" /\ (docs' # docs \/ prod' = "failed"))
            => "producer" \in writers' ]_vars

C11_Witness ==
    /\ writers = {"producer", "drain"}
    /\ pc = "read" /\ prod = "writing" /\ child = "running"

\* C13: with a StreamGenerator and no cancellation, once the child has
\* terminated the join in __exit__ eventually returns and run eventually ends.
C13_RunTerminates ==
    (gen = "stream" /\ child = "exited" /\ ~aborted) ~> (pc = "done")

\* the function each dispatcher of the two tasks must run for each concrete
\* type; every other type has no handler
Expected(d, t) ==
    CASE d = "chandler"      /\ t = "TipsterCollection"     -> "trec_collection"
      [] d = "chandler"      /\ t = "ir_csv.AdhocDocuments" -> "csv_collection"
      [] d = "topicshandler" /\ t = "TrecAdhocTopics"       -> "trectopics"
      [] d = "topicshandler" /\ t = "ir_csv.AdhocTopics"    -> "tsvtopics"
      [] d = "modelhandler"  /\ t = "BM25"                  -> "handle"
      [] OTHER -> "UnsupportedVariant"

====
